---- MODULE Spec2Model ----
(***************************************************************************)
(* Model of plugins/analysis/kernel_config/code/kernel_config.py :         *)
(* the kernel_config analysis plugin (classifier, IKCONFIG extraction      *)
(* cascade, process_object orchestration, checksec audit and whitelist).   *)
(*                                                                         *)
(* Byte strings are sequences of tokens.  A token stands for a run of      *)
(* bytes that the code only ever treats as a unit: the literal pieces of   *)
(* the two regular expressions, the magic word, a newline, an invalid      *)
(* UTF-8 byte, and representatives of the character classes \w and \d.     *)
(***************************************************************************)
EXTENDS Integers, Sequences, FiniteSets, TLC

VARIABLES
  pc,                \* position in process_object / check_kernel_config
  file_object,       \* the FileObject under analysis
  analysis,          \* file_object.processed_analysis['kernel_config']
  tags,              \* analysis tags added to the object
  maybe_config,      \* the local maybe_config of process_object
  decompress_calls,  \* arguments of the decompress calls made, in order
  classified,        \* the probably_kernel_config calls made: input and verdict
  tmpfile,           \* the NamedTemporaryFile of check_kernel_config
  auditor_output,    \* what execute_shell_command returned
  result,            \* the local result of check_kernel_config
  exc,               \* the exception in flight, "none" if there is none
  arg,               \* argument of a pure function under test
  ret                \* its return value

vars == <<pc, file_object, analysis, tags, maybe_config, decompress_calls, classified,
          tmpfile, auditor_output, result, exc, arg, ret>>

(***************************************************************************)
(* Tokens of byte strings                                                  *)
(***************************************************************************)
HL   == "# Linux"                  \* literal prefix of kernel_pattern
KC   == " Kernel Configuration"    \* literal suffix of kernel_pattern
CFG  == "CONFIG_"                  \* first alternative + '_' of config_pattern
HCFG == "# CONFIG_"                \* second alternative + '_' of config_pattern
EQ   == "="
NL   == "NL"                       \* b'\n'
W    == "FOO"                      \* word characters that are neither digits nor y/m/n
D    == "1"                        \* a decimal digit
Y    == "y"                        \* one of the letters y, m, n
SP   == " "                        \* a character outside \w, not a newline
BAD  == "0xff"                     \* a byte that is never valid UTF-8
Z    == "0x00"                     \* an opaque (compressed) byte, valid as UTF-8

\* MAGIC_WORD = b'IKCFG_ST\037\213': the byte \213 (0x8b) after \037 is a stray
\* continuation byte, so a buffer holding the magic word never decodes as UTF-8.
MAGIC_WORD == "IKCFG_ST.037.213"

NoBytes == <<>>

(***************************************************************************)
(* bytes.decode(): a str is a tagged character sequence.                   *)
(***************************************************************************)
UnicodeDecodeError == [error |-> "UnicodeDecodeError"]

decode(raw_data) ==
  IF \E i \in 1..Len(raw_data) : raw_data[i] \in {BAD, MAGIC_WORD}
  THEN UnicodeDecodeError
  ELSE [str |-> raw_data]

(***************************************************************************)
(* The two compiled patterns (re.MULTILINE), matched position by position  *)
(* as the regex engine does.                                               *)
(***************************************************************************)
\* '^' in MULTILINE mode: start of the string or just after a newline
AtLineStart(s, i) == i = 1 \/ s[i - 1] = NL

\* '$' in MULTILINE mode after consuming s[k]: end of string or just before a newline
AtLineEnd(s, k) == k = Len(s) \/ s[k + 1] = NL

\* '^' and '$' without re.MULTILINE ('$' also matches before a final newline)
AtStringStart(s, i) == i = 1

AtStringEnd(s, k) == k = Len(s) \/ (k + 1 = Len(s) /\ s[k + 1] = NL)

isword(t) == t \in {W, D, Y, CFG}      \* \w: 'CONFIG_' itself is made of word characters

isdigit(t) == t = D                    \* \d

\* ^(CONFIG|# CONFIG)_\w+=(\d+|[ymn])$ without the MULTILINE flag
config_pattern_nomultiline(s, i) ==
  /\ AtStringStart(s, i)
  /\ s[i] \in {CFG, HCFG}
  /\ \E e \in (i + 2)..Len(s) :
       /\ s[e] = EQ
       /\ \A j \in (i + 1)..(e - 1) : isword(s[j])
       /\ \E k \in (e + 1)..Len(s) :
            /\ \/ (k = e + 1 /\ s[k] = Y)
               \/ \A j \in (e + 1)..k : isdigit(s[j])
            /\ AtStringEnd(s, k)

\* self.config_pattern matches starting at position i of s
config_pattern(s, i) ==
  /\ AtLineStart(s, i)
  /\ s[i] \in {CFG, HCFG}
  /\ \E e \in (i + 2)..Len(s) :
       /\ s[e] = EQ
       /\ \A j \in (i + 1)..(e - 1) : isword(s[j])
       /\ \E k \in (e + 1)..Len(s) :
            /\ \/ (k = e + 1 /\ s[k] = Y)
               \/ \A j \in (e + 1)..k : isdigit(s[j])
            /\ AtLineEnd(s, k)

\* self.kernel_pattern matches starting at position i of s:
\* ^# Linux.* Kernel Configuration$ ('.' matches anything but a newline)
kernel_pattern(s, i) ==
  /\ AtLineStart(s, i)
  /\ s[i] = HL
  /\ \E k \in (i + 1)..Len(s) :
       /\ s[k] = KC
       /\ \A j \in (i + 1)..(k - 1) : s[j] # NL
       /\ AtLineEnd(s, k)

\* pattern.findall(content): the start positions of the matches (every match
\* starts at a line start and ends at a line end, so matches never overlap)
findall_config(s) == {i \in 1..Len(s) : config_pattern(s, i)}

findall_kernel(s) == {i \in 1..Len(s) : kernel_pattern(s, i)}

probably_kernel_config(raw_data) ==
  LET content == decode(raw_data) IN
  IF content = UnicodeDecodeError THEN FALSE
  ELSE LET config_directives    == findall_config(content.str)
           kernel_config_banner == findall_kernel(content.str)
       IN  Cardinality(kernel_config_banner) > 0 /\ Cardinality(config_directives) > 0

(***************************************************************************)
(* The external decompression capability (internal/decomp.decompress).     *)
(* One call yields an ordered list of candidate buffers, possibly empty;   *)
(* the capability is code outside this file, so each call's outcome is an  *)
(* input: any candidate list within the bounds, or an exception.           *)
(***************************************************************************)
MaxCandidates == 2

\* a plain-text configuration that the classifier accepts
ConfigText == <<HL, KC, NL, CFG, W, EQ, Y>>

\* a banner without any directive
BannerText == <<HL, KC, NL>>

\* buffers a decompression may produce
CandidateBufs == {ConfigText, BannerText, <<Z, MAGIC_WORD, Z>>, <<Z>>}

CandidateLists == UNION {[1..n -> CandidateBufs] : n \in 0..MaxCandidates}

DecompressResults ==
  {[raised |-> FALSE, candidates |-> c] : c \in CandidateLists}
    \cup {[raised |-> TRUE, candidates |-> <<>>]}

\* bytes.find(sub) for a one-token sub: 0-based offset of the first match, -1 if none
RECURSIVE find_from(_, _, _)
find_from(s, sub, i) ==
  IF i > Len(s) THEN -1
  ELSE IF s[i] = sub THEN i - 1
  ELSE find_from(s, sub, i + 1)

find(s, sub) == find_from(s, sub, 1)

\* s[start:] with a 0-based start
slice_from(s, start) == SubSeq(s, start + 1, Len(s))

\* one logged call of decompress: its argument, what it gave back and which
\* candidate indices (0-based) the caller read
Call(a, d, read) == [arg |-> a, result |-> d, read |-> read]

\* the second half of try_object_extract_ikconfig (lines 118-127), given the
\* container, the calls made so far and the outcome d of the payload call
extract_from_container(container, calls, d) ==
  LET start_offset == find(container, MAGIC_WORD) IN
  IF start_offset < 0
  THEN [ret |-> NoBytes, exc |-> "none", calls |-> calls]
  ELSE LET a == slice_from(container, start_offset) IN
       IF d.raised
       THEN [ret |-> NoBytes, exc |-> "DecompressError",
             calls |-> Append(calls, Call(a, d, {}))]
       ELSE IF Len(d.candidates) = 0
       THEN [ret |-> NoBytes, exc |-> "none", calls |-> Append(calls, Call(a, d, {}))]
       ELSE [ret |-> d.candidates[1], exc |-> "none",
             calls |-> Append(calls, Call(a, d, {0}))]

\* a cascade that always unwraps the whole buffer first
try_object_extract_ikconfig_always_unwrap(raw_data, d1, d2) ==
  IF d1.raised
  THEN [ret |-> NoBytes, exc |-> "DecompressError",
        calls |-> <<Call(raw_data, d1, {})>>]
  ELSE IF Len(d1.candidates) = 0
  THEN [ret |-> NoBytes, exc |-> "none", calls |-> <<Call(raw_data, d1, {})>>]
  ELSE extract_from_container(d1.candidates[1], <<Call(raw_data, d1, {0})>>, d2)

\* a cascade that looks for the magic word in every candidate of the outer call
try_object_extract_ikconfig_any_candidate(raw_data, d1, d2) ==
  IF find(raw_data, MAGIC_WORD) < 0
  THEN IF d1.raised
       THEN [ret |-> NoBytes, exc |-> "DecompressError",
             calls |-> <<Call(raw_data, d1, {})>>]
       ELSE LET hits == {i \in 1..Len(d1.candidates) :
                           find(d1.candidates[i], MAGIC_WORD) >= 0}
                seen == {i - 1 : i \in 1..Len(d1.candidates)}
            IN  IF hits = {}
                THEN [ret |-> NoBytes, exc |-> "none",
                      calls |-> <<Call(raw_data, d1, seen)>>]
                ELSE LET first == CHOOSE i \in hits : \A j \in hits : i <= j IN
                     extract_from_container(d1.candidates[first],
                                            <<Call(raw_data, d1, seen)>>, d2)
  ELSE extract_from_container(raw_data, <<>>, d1)

\* try_object_extract_ikconfig(raw_data); d1 and d2 are what the capability
\* answers to the first and to the second call the function makes
try_object_extract_ikconfig(raw_data, d1, d2) ==
  IF find(raw_data, MAGIC_WORD) < 0
  THEN \* ikconfig is encapsulated in compression container
       IF d1.raised
       THEN [ret |-> NoBytes, exc |-> "DecompressError",
             calls |-> <<Call(raw_data, d1, {})>>]
       ELSE IF Len(d1.candidates) = 0
       THEN [ret |-> NoBytes, exc |-> "none", calls |-> <<Call(raw_data, d1, {})>>]
       ELSE extract_from_container(d1.candidates[1], <<Call(raw_data, d1, {0})>>, d2)
  ELSE extract_from_container(raw_data, <<>>, d1)

(***************************************************************************)
(* Python dicts are functions from keys to values; JSON values are tagged. *)
(***************************************************************************)
EmptyDict == [k \in {} |-> k]

JScalar == [t |-> "scalar"]               \* a JSON string, number, boolean or null

JList(items) == [t |-> "list", items |-> items]   \* a JSON array of strings

JObj(m) == [t |-> "object", m |-> m]      \* a JSON object, i.e. a dict

KERNEL_WHITELIST ==
  {"kernel_heap_randomization", "gcc_stack_protector", "gcc_stack_protector_strong",
   "gcc_structleak", "gcc_structleak_byref", "slab_freelist_randomization", "cpu_sw_domain",
   "virtually_mapped_stack", "restrict_dev_mem_access", "restrict_io_dev_mem_access",
   "ro_kernel_data", "ro_module_data", "full_refcount_validation", "hardened_usercopy",
   "fortify_source", "restrict_dev_kmem_access", "strict_user_copy_check",
   "random_address_space_layout", "arm_kernmem_perms", "arm_strict_rodata",
   "unmap_kernel_in_userspace", "harden_branch_predictor", "harden_el2_vector_mapping",
   "speculative_store_bypass_disable", "emulate_privileged_access_never",
   "randomize_kernel_address", "randomize_module_region_full"}

GRSECURITY_WHITELIST ==
  {"grsecurity_config", "config_pax_kernexec", "config_pax_noexec", "config_pax_pageexec",
   "config_pax_mprotect", "config_pax_aslr", "config_pax_randkstack", "config_pax_randustack",
   "config_pax_randmmap", "config_pax_memory_sanitize", "config_pax_memory_stackleak",
   "config_pax_memory_uderef", "config_pax_refcount", "config_pax_usercopy",
   "config_grkernsec_jit_harden", "config_bpf_jit", "config_grkernsec_rand_threadstack",
   "config_grkernsec_kmem", "config_grkernsec_io", "config_grkernsec_modharden",
   "config_modules", "config_grkernsec_chroot", "config_grkernsec_harden_ptrace",
   "config_grkernsec_randnet", "config_grkernsec_blackhole", "config_grkernsec_brute",
   "config_grkernsec_hidesym"}

\* what one statement sequence did: the exception it raised ("none" if it
\* completed) and the object it worked on, as mutated so far
Outcome(e, v) == [exc |-> e, value |-> v]

\* the dict m without the keys outside keep
restrict(m, keep) == [k \in (DOMAIN m) \cap keep |-> m[k]]

\* one loop of whitelist_configs:
\*   for key in config_results[section].copy():
\*       if key not in whitelist: del config_results[section][key]
filter_section(config_results, section, whitelist) ==
  IF config_results.t # "object"
  THEN Outcome("TypeError", config_results)          \* subscripting a non-dict with a str
  ELSE IF section \notin DOMAIN config_results.m
  THEN Outcome("KeyError", config_results)
  ELSE LET sec == config_results.m[section] IN
       IF sec.t = "scalar"
       THEN Outcome("AttributeError", config_results)  \* no .copy()
       ELSE IF sec.t = "list"
       THEN IF \E i \in 1..Len(sec.items) : sec.items[i] \notin whitelist
            THEN Outcome("TypeError", config_results)  \* del list[str]
            ELSE Outcome("none", config_results)
       ELSE Outcome("none",
                    [config_results EXCEPT !.m[section] = JObj(restrict(sec.m, whitelist))])

\* a filter that checks both sections against the kernel list
whitelist_configs_one_list(config_results) ==
  LET k == filter_section(config_results, "kernel", KERNEL_WHITELIST) IN
  IF k.exc # "none" THEN k
  ELSE filter_section(k.value, "grsecurity", KERNEL_WHITELIST)

\* a filter that skips a section that is absent (config_results.get(section, {}))
whitelist_configs_skip_absent(config_results) ==
  LET has(sec) == config_results.t = "object" => sec \in DOMAIN config_results.m
      k == IF has("kernel")
           THEN filter_section(config_results, "kernel", KERNEL_WHITELIST)
           ELSE Outcome("none", config_results)
  IN  IF k.exc # "none" \/ ~has("grsecurity") THEN k
      ELSE filter_section(k.value, "grsecurity", GRSECURITY_WHITELIST)

whitelist_configs(config_results) ==
  LET k == filter_section(config_results, "kernel", KERNEL_WHITELIST) IN
  IF k.exc # "none" THEN k
  ELSE filter_section(k.value, "grsecurity", GRSECURITY_WHITELIST)

\* json.loads(text) on the auditor's standard output
json_loads(text) ==
  IF text.kind = "json" THEN Outcome("none", text.doc)
  ELSE Outcome("JSONDecodeError", text)

(***************************************************************************)
(* Auditor outputs                                                         *)
(***************************************************************************)
Flags == {"gcc_stack_protector", "config_pax_aslr", "unrelated_flag"}

FlagValues == {"yes", "no"}

\* every mapping from some of the flags to a value
SectionDicts(values) == UNION {[keys -> values] : keys \in SUBSET Flags}

\* what a section entry can be: a mapping, or a JSON value that is not a mapping
SectionEntries(values) ==
  {JObj(m) : m \in SectionDicts(values)}
    \cup {JScalar, JList(<<>>), JList(<<"gcc_stack_protector">>), JList(<<"unrelated_flag">>)}

\* marks an entry that the document does not have
Absent == [t |-> "absent"]

\* the dict with key k mapped to v, or the empty dict when v is Absent
Entry(k, v) == IF v = Absent THEN EmptyDict ELSE k :> v

\* JSON objects with an optional kernel, grsecurity and selinux entry
Reports(entries) ==
  {JObj(Entry("kernel", k) @@ Entry("grsecurity", g) @@ Entry("selinux", o)) :
     k \in entries \cup {Absent}, g \in entries \cup {Absent},
     o \in {Absent, JObj("selinux_enabled" :> "yes")}}

\* parsed JSON documents the filter is applied to
Documents(entries) == Reports(entries) \cup {JScalar, JList(<<>>)}

\* what the auditor can print: text that is no JSON, or a JSON document
AuditorOutputs(entries) ==
  {[kind |-> "garbage"]} \cup {[kind |-> "json", doc |-> d] : d \in Documents(entries)}

(***************************************************************************)
(* Specifications of the pure functions: Init draws the argument, the one  *)
(* action applies the function.                                            *)
(***************************************************************************)
MaxLines == 3

\* lines (without newline) the classifier's inputs are assembled from
LineSamples ==
  { <<>>,
    <<HL, KC>>, <<HL, SP, D, KC>>, <<HL, KC, SP>>, <<SP, HL, KC>>, <<HL, W>>,
    <<HL, KC, KC>>, <<HCFG, D, EQ, Y>>,
    <<CFG, W, EQ, Y>>, <<HCFG, W, EQ, D, D>>, <<CFG, CFG, EQ, D>>,
    <<CFG, EQ, Y>>, <<CFG, W, EQ, Y, Y>>, <<CFG, W, EQ>>, <<SP, CFG, W, EQ, Y>>,
    <<W, EQ, Y>>, <<BAD>> }

\* the lines joined with newlines; a final empty line gives a trailing newline
RECURSIVE join(_)
join(lines) ==
  IF Len(lines) = 0 THEN <<>>
  ELSE IF Len(lines) = 1 THEN lines[1]
  ELSE lines[1] \o <<NL>> \o join(Tail(lines))

ClassifierInputs ==
  {join(ls) : ls \in UNION {[1..n -> LineSamples] : n \in 0..MaxLines}}

Unused == [pc |-> "unused"]

InitPure ==
  /\ pc = "call"
  /\ ret = Unused
  /\ file_object = Unused
  /\ analysis = EmptyDict
  /\ tags = {}
  /\ maybe_config = NoBytes
  /\ decompress_calls = <<>>
  /\ classified = <<>>
  /\ tmpfile = "none"
  /\ auditor_output = Unused
  /\ result = Unused
  /\ exc = "none"

pure_unchanged == <<file_object, analysis, tags, maybe_config, decompress_calls, classified,
                    tmpfile, auditor_output, result, exc, arg>>

InitClassify == InitPure /\ arg \in ClassifierInputs

ApplyClassifier ==
  /\ pc = "call"
  /\ ret' = probably_kernel_config(arg)
  /\ pc' = "returned"
  /\ UNCHANGED pure_unchanged

SpecClassify == InitClassify /\ [][ApplyClassifier]_vars

MaxBufLen == 3

\* buffers handed to the cascade: every token sequence up to MaxBufLen over
\* the magic word and an opaque byte
CascadeInputs == UNION {[1..n -> {MAGIC_WORD, Z}] : n \in 0..MaxBufLen}

InitCascade == InitPure /\ arg \in CascadeInputs

ApplyCascade ==
  /\ pc = "call"
  /\ \E d1 \in DecompressResults, d2 \in DecompressResults :
       ret' = try_object_extract_ikconfig(arg, d1, d2)
  /\ pc' = "returned"
  /\ UNCHANGED pure_unchanged

SpecCascade == InitCascade /\ [][ApplyCascade]_vars

InitFilter == InitPure /\ arg \in Documents(SectionEntries(FlagValues))

ApplyWhitelist ==
  /\ pc = "call"
  /\ ret' = whitelist_configs(arg)
  /\ pc' = "returned"
  /\ UNCHANGED pure_unchanged

SpecFilter == InitFilter /\ [][ApplyWhitelist]_vars

(***************************************************************************)
(* Claims about the classifier (SpecClassify)                              *)
(***************************************************************************)
\* the text cut at its newlines
RECURSIVE SplitLines(_)
SplitLines(s) ==
  IF \A i \in 1..Len(s) : s[i] # NL THEN <<s>>
  ELSE LET n == CHOOSE i \in 1..Len(s) : s[i] = NL /\ \A j \in 1..(i - 1) : s[j] # NL
       IN  <<SubSeq(s, 1, n - 1)>> \o SplitLines(SubSeq(s, n + 1, Len(s)))

\* '# Linux<anything> Kernel Configuration'
IsBannerLine(l) == Len(l) >= 2 /\ l[1] = HL /\ l[Len(l)] = KC

\* 'CONFIG_<word>=<digits|y|m|n>' or '# CONFIG_<word>=<digits|y|m|n>'
IsDirectiveLine(l) ==
  /\ Len(l) >= 4
  /\ l[1] \in {CFG, HCFG}
  /\ \E e \in 3..(Len(l) - 1) :
       /\ l[e] = EQ
       /\ \A j \in 2..(e - 1) : l[j] \in {W, D, Y, CFG}
       /\ \/ SubSeq(l, e + 1, Len(l)) = <<Y>>
          \/ \A j \in (e + 1)..Len(l) : l[j] = D

ValidUtf8(s) == \A i \in 1..Len(s) : s[i] \notin {BAD, MAGIC_WORD}

HasBannerLine(s) == \E n \in 1..Len(SplitLines(s)) : IsBannerLine(SplitLines(s)[n])

HasDirectiveLine(s) == \E n \in 1..Len(SplitLines(s)) : IsDirectiveLine(SplitLines(s)[n])

\* C7: probably_kernel_config returns true if and only if its input decodes as
\* UTF-8 and the text holds at least one banner line and at least one directive
\* line; undecodable input, a banner without a directive and directives without
\* a banner all give false.
C7_ClassifierIffBannerAndDirective ==
  pc = "returned" =>
    (ret <=> (ValidUtf8(arg) /\ HasBannerLine(arg) /\ HasDirectiveLine(arg)))

\* an accepted three-line text whose first line is neither banner nor directive
C7_Witness ==
  /\ pc = "returned"
  /\ ret = TRUE
  /\ Len(SplitLines(arg)) = 3
  /\ ~IsBannerLine(SplitLines(arg)[1])
  /\ ~IsDirectiveLine(SplitLines(arg)[1])

(***************************************************************************)
(* Claims about the extraction cascade (SpecCascade)                       *)
(***************************************************************************)
HasMagic(s) == \E i \in 1..Len(s) : s[i] = MAGIC_WORD

\* the position (1-based) of the first magic word of s
FirstMagic(s) == CHOOSE i \in 1..Len(s) : s[i] = MAGIC_WORD /\ \A j \in 1..(i - 1) : s[j] # MAGIC_WORD

\* C5: for a buffer that holds the magic signature, try_object_extract_ikconfig
\* does not decompress the whole buffer; it calls the decompression capability
\* exactly once, on the slice from the first signature to the end, and returns
\* the first candidate of that call unchanged, or empty bytes if there is none.
C5_MagicPresentSingleCall ==
  (pc = "returned" /\ HasMagic(arg)) =>
    /\ Len(ret.calls) = 1
    /\ ret.calls[1].arg = SubSeq(arg, FirstMagic(arg), Len(arg))
    /\ ~ret.calls[1].result.raised =>
         /\ ret.exc = "none"
         /\ ret.ret = IF Len(ret.calls[1].result.candidates) = 0 THEN NoBytes
                      ELSE ret.calls[1].result.candidates[1]

\* the signature is not at the start, occurs twice, and the call gave two candidates
C5_Witness ==
  /\ pc = "returned"
  /\ Len(arg) = 3
  /\ HasMagic(arg)
  /\ FirstMagic(arg) = 2
  /\ arg[3] = MAGIC_WORD
  /\ Len(ret.calls) = 1
  /\ Len(ret.calls[1].result.candidates) = 2
  /\ ret.ret = ConfigText

\* C6: for a buffer in which the signature occurs neither in the raw bytes nor
\* in the first candidate of one decompression of the whole buffer (or that
\* decompression gave no candidate), try_object_extract_ikconfig returns empty
\* bytes, having decompressed once and read no candidate but the first.
C6_NoMagicGivesEmpty ==
  (pc = "returned" /\ ~HasMagic(arg)) =>
    /\ Len(ret.calls) >= 1
    /\ ret.calls[1].arg = arg
    /\ ( /\ ~ret.calls[1].result.raised
         /\ \/ Len(ret.calls[1].result.candidates) = 0
            \/ ~HasMagic(ret.calls[1].result.candidates[1]) )
       => /\ ret.ret = NoBytes
          /\ ret.exc = "none"
          /\ Len(ret.calls) = 1
          /\ ret.calls[1].read \subseteq {0}

\* the second candidate of the outer decompression holds the signature, the first does not
C6_Witness ==
  /\ pc = "returned"
  /\ ~HasMagic(arg)
  /\ Len(arg) > 0
  /\ Len(ret.calls) = 1
  /\ Len(ret.calls[1].result.candidates) = 2
  /\ ~HasMagic(ret.calls[1].result.candidates[1])
  /\ HasMagic(ret.calls[1].result.candidates[2])
  /\ ret.ret = NoBytes

(***************************************************************************)
(* Claims about the hardening result filter (SpecFilter)                   *)
(***************************************************************************)
\* the document is a JSON object that has the section, and the section is a mapping
HasSection(doc, section) ==
  /\ doc.t = "object"
  /\ section \in DOMAIN doc.m
  /\ doc.m[section].t = "object"

\* the document is a JSON object that has no entry for the section
LacksSection(doc, section) == doc.t = "object" /\ section \notin DOMAIN doc.m

\* section of document out holds exactly the allow-listed keys of that section
\* of document in, each with the value it had
FilteredTo(out, in, section, allowed) ==
  /\ HasSection(out, section)
  /\ DOMAIN out.m[section].m = {k \in DOMAIN in.m[section].m : k \in allowed}
  /\ \A k \in DOMAIN out.m[section].m : out.m[section].m[k] = in.m[section].m[k]

\* the two documents have the same top-level keys and agree outside the given sections
SameExcept(out, in, sections) ==
  /\ out.t = "object"
  /\ DOMAIN out.m = DOMAIN in.m
  /\ \A k \in (DOMAIN in.m) \ sections : out.m[k] = in.m[k]

\* C8: for a report with both a kernel and a grsecurity section, whitelist_configs
\* leaves in each section exactly the input keys of that section's own allow-list,
\* values unchanged, and leaves every other top-level entry unchanged.
C8_SectionsFilteredToOwnList ==
  (pc = "returned" /\ HasSection(arg, "kernel") /\ HasSection(arg, "grsecurity")) =>
    /\ ret.exc = "none"
    /\ SameExcept(ret.value, arg, {"kernel", "grsecurity"})
    /\ FilteredTo(ret.value, arg, "kernel", KERNEL_WHITELIST)
    /\ FilteredTo(ret.value, arg, "grsecurity", GRSECURITY_WHITELIST)

\* both sections hold all three flags next to a third top-level entry; each
\* section keeps only the flag of its own list
C8_Witness ==
  /\ pc = "returned"
  /\ HasSection(arg, "kernel") /\ HasSection(arg, "grsecurity")
  /\ DOMAIN arg.m["kernel"].m = Flags
  /\ DOMAIN arg.m["grsecurity"].m = Flags
  /\ "selinux" \in DOMAIN arg.m
  /\ ret.exc = "none"
  /\ DOMAIN ret.value.m["kernel"].m = {"gcc_stack_protector"}
  /\ DOMAIN ret.value.m["grsecurity"].m = {"config_pax_aslr"}
  /\ ret.value.m["selinux"] = arg.m["selinux"]

\* the sections the report has are mappings
SectionsAreDicts(doc) ==
  /\ doc.t = "object"
  /\ \A sec \in {"kernel", "grsecurity"} \cap DOMAIN doc.m : doc.m[sec].t = "object"

\* C9 as stated: the filter applied to a report from which a section or an
\* allow-listed key is absent completes without error; what is absent stays
\* absent and a section that is present is filtered to its allow-list.
C9_AbsentSectionNoError ==
  (pc = "returned" /\ SectionsAreDicts(arg)) =>
    /\ ret.exc = "none"
    /\ SameExcept(ret.value, arg, {"kernel", "grsecurity"})
    /\ HasSection(arg, "kernel") => FilteredTo(ret.value, arg, "kernel", KERNEL_WHITELIST)
    /\ HasSection(arg, "grsecurity") =>
         FilteredTo(ret.value, arg, "grsecurity", GRSECURITY_WHITELIST)

\* C9 amended: with both sections present the filter completes without error
\* whichever allow-listed keys are absent, and an absent key stays absent; with
\* a section absent whitelist_configs raises KeyError: nothing is filtered if
\* kernel is absent, and only kernel has been filtered if grsecurity is absent.
C9_AbsentKeyOkAbsentSectionKeyError ==
  (pc = "returned" /\ SectionsAreDicts(arg)) =>
    /\ (HasSection(arg, "kernel") /\ HasSection(arg, "grsecurity")) =>
         /\ ret.exc = "none"
         /\ \A sec \in {"kernel", "grsecurity"} :
              DOMAIN ret.value.m[sec].m \subseteq DOMAIN arg.m[sec].m
    /\ LacksSection(arg, "kernel") =>
         /\ ret.exc = "KeyError"
         /\ ret.value = arg
    /\ (HasSection(arg, "kernel") /\ LacksSection(arg, "grsecurity")) =>
         /\ ret.exc = "KeyError"
         /\ SameExcept(ret.value, arg, {"kernel"})
         /\ FilteredTo(ret.value, arg, "kernel", KERNEL_WHITELIST)

\* grsecurity is absent and kernel holds a flag outside its list
C9_Witness ==
  /\ pc = "returned"
  /\ HasSection(arg, "kernel")
  /\ LacksSection(arg, "grsecurity")
  /\ "unrelated_flag" \in DOMAIN arg.m["kernel"].m
  /\ ret.exc = "KeyError"
  /\ "unrelated_flag" \notin DOMAIN ret.value.m["kernel"].m

(***************************************************************************)
(* Objects handed to process_object                                        *)
(***************************************************************************)
\* str.lower() on the tokens component names are written with
lower_token(t) ==
  CASE t = "Linux"   -> "linux"
    [] t = "LINUX"   -> "linux"
    [] t = "Kernel"  -> "kernel"
    [] t = "KERNEL"  -> "kernel"
    [] t = "BusyBox" -> "busybox"
    [] OTHER         -> t

lower(text) == [i \in 1..Len(text) |-> lower_token(text[i])]

\* needle in text
contains(text, needle) ==
  \E i \in 0..(Len(text) - Len(needle)) : SubSeq(text, i + 1, i + Len(needle)) = needle

\* summaries of the software_components analysis
ComponentLists ==
  { <<>>,
    << <<"Linux", " ", "Kernel", " ", "5.4.0">> >>,
    << <<"BusyBox", " ", "1.30">> >>,
    << <<"BusyBox", " ", "1.30">>, <<"LINUX", " ", "KERNEL">> >>,
    << <<"Kernel", " ", "Linux">>, <<"linux", "kernel">> >> }

\* results of the file_type analysis, when it ran
FileTypeResults ==
  {EmptyDict, "mime" :> "text/plain", "mime" :> "application/octet-stream"}

\* results of the software_components analysis, when it ran
SoftwareComponentsResults ==
  {EmptyDict} \cup {"summary" :> c : c \in ComponentLists}

\* processed_analysis of the object before this plugin runs
ProcessedAnalyses ==
  {ft @@ sc :
     ft \in {EmptyDict} \cup {"file_type" :> r : r \in FileTypeResults},
     sc \in {EmptyDict} \cup {"software_components" :> r : r \in SoftwareComponentsResults}}

FileNames == {"configs.ko", "vmlinux"}

Binaries == {ConfigText, BannerText, <<Z>>, <<Z, MAGIC_WORD, Z>>, <<BAD, NL>>}

FileObjects ==
  {[file_name |-> n, binary |-> b, processed_analysis |-> pa] :
     n \in FileNames, b \in Binaries, pa \in ProcessedAnalyses}

\* section entries the auditor prints in the model of process_object
AuditEntries ==
  { JObj(EmptyDict),
    JObj(("gcc_stack_protector" :> "yes") @@ ("unrelated_flag" :> "no")),
    JObj("config_pax_aslr" :> "yes"),
    JScalar, JList(<<>>), JList(<<"unrelated_flag">>) }

(***************************************************************************)
(* Helpers of process_object                                               *)
(***************************************************************************)
\* a plain-text test that accepts any declared MIME type
object_mime_is_plaintext_any_mime(fo) ==
  LET pa == fo.processed_analysis IN
  /\ "file_type" \in DOMAIN pa
  /\ "mime" \in DOMAIN pa["file_type"]

object_mime_is_plaintext(fo) ==
  LET pa == fo.processed_analysis IN
  /\ "file_type" \in DOMAIN pa
  /\ "mime" \in DOMAIN pa["file_type"]
  /\ pa["file_type"]["mime"] = "text/plain"

object_is_kernel_image(fo) ==
  LET pa == fo.processed_analysis IN
  /\ "software_components" \in DOMAIN pa
  /\ "summary" \in DOMAIN pa["software_components"]
  /\ \E i \in 1..Len(pa["software_components"]["summary"]) :
       contains(lower(pa["software_components"]["summary"][i]), <<"linux", " ", "kernel">>)

get_summary(results) ==
  IF "is_kernel_config" \in DOMAIN results /\ results["is_kernel_config"] = TRUE
  THEN <<"Kernel Config">>
  ELSE <<>>

\* the two assignments of add_kernel_config_to_analysis
add_kernel_config_to_analysis(an, config_bytes) ==
  ("is_kernel_config" :> TRUE) @@ ("kernel_config" :> decode(config_bytes)) @@ an

\* records decodable bytes as a configuration whatever the classifier said
record_if_accepted_unchecked(an, config_bytes, accepted) ==
  IF decode(config_bytes) # UnicodeDecodeError
  THEN add_kernel_config_to_analysis(an, config_bytes)
  ELSE an

\* if self.probably_kernel_config(x): self.add_kernel_config_to_analysis(file_object, x)
record_if_accepted(an, config_bytes, accepted) ==
  IF accepted THEN add_kernel_config_to_analysis(an, config_bytes) ELSE an

\* the analysis tag added next to the two assignments
tags_if_accepted(accepted) == IF accepted THEN {"IKCONFIG"} ELSE {}

\* one logged call of probably_kernel_config
Classified(raw, accepted) == [raw |-> raw, accepted |-> accepted]

(***************************************************************************)
(* process_object, statement by statement                                  *)
(***************************************************************************)
Init ==
  /\ pc = "idle"
  /\ file_object = Unused
  /\ analysis = EmptyDict
  /\ tags = {}
  /\ maybe_config = NoBytes
  /\ decompress_calls = <<>>
  /\ classified = <<>>
  /\ tmpfile = "none"
  /\ auditor_output = Unused
  /\ result = Unused
  /\ exc = "none"
  /\ arg = Unused
  /\ ret = Unused

\* line 70: the framework calls process_object with some object
Begin ==
  /\ pc = "idle"
  /\ file_object' \in FileObjects
  /\ analysis' = EmptyDict
  /\ pc' = "dispatch"
  /\ UNCHANGED <<tags, maybe_config, decompress_calls, classified, tmpfile,
                 auditor_output, result, exc, arg, ret>>

\* lines 72-73: the MIME type is text/plain and the classifier accepts the bytes
PlaintextPath ==
  /\ pc = "dispatch"
  /\ object_mime_is_plaintext(file_object)
  /\ probably_kernel_config(file_object.binary)
  /\ classified' = Append(classified, Classified(file_object.binary, TRUE))
  /\ analysis' = record_if_accepted(analysis, file_object.binary, TRUE)
  /\ tags' = tags \cup tags_if_accepted(TRUE)
  /\ pc' = "summary"
  /\ UNCHANGED <<file_object, maybe_config, decompress_calls, tmpfile,
                 auditor_output, result, exc, arg, ret>>

\* the classifier calls made while the condition of line 72 evaluates to false
rejected_as_plaintext ==
  IF object_mime_is_plaintext(file_object)
  THEN Append(classified, Classified(file_object.binary, FALSE))
  ELSE classified

\* lines 74-77: the first condition failed, and the object is named configs.ko
\* or is a kernel image: run the cascade and classify what it returns
ExtractPath ==
  /\ pc = "dispatch"
  /\ ~(object_mime_is_plaintext(file_object) /\ probably_kernel_config(file_object.binary))
  /\ file_object.file_name = "configs.ko" \/ object_is_kernel_image(file_object)
  /\ \E d1 \in DecompressResults, d2 \in DecompressResults :
       LET r == try_object_extract_ikconfig(file_object.binary, d1, d2)
           accepted == probably_kernel_config(r.ret)
       IN  /\ decompress_calls' =
                decompress_calls \o [i \in 1..Len(r.calls) |-> r.calls[i].arg]
           /\ IF r.exc # "none"
              THEN /\ exc' = r.exc
                   /\ pc' = "raised"
                   /\ classified' = rejected_as_plaintext
                   /\ UNCHANGED <<maybe_config, analysis, tags>>
              ELSE /\ maybe_config' = r.ret
                   /\ classified' = Append(rejected_as_plaintext, Classified(r.ret, accepted))
                   /\ analysis' = record_if_accepted(analysis, r.ret, accepted)
                   /\ tags' = tags \cup tags_if_accepted(accepted)
                   /\ pc' = "summary"
                   /\ UNCHANGED exc
  /\ UNCHANGED <<file_object, tmpfile, auditor_output, result, arg, ret>>

\* neither condition of lines 72 and 74 holds
NoPath ==
  /\ pc = "dispatch"
  /\ ~(object_mime_is_plaintext(file_object) /\ probably_kernel_config(file_object.binary))
  /\ ~(file_object.file_name = "configs.ko" \/ object_is_kernel_image(file_object))
  /\ classified' = rejected_as_plaintext
  /\ pc' = "summary"
  /\ UNCHANGED <<file_object, analysis, tags, maybe_config, decompress_calls, tmpfile,
                 auditor_output, result, exc, arg, ret>>

\* line 79
Summary ==
  /\ pc = "summary"
  /\ analysis' = ("summary" :> get_summary(analysis)) @@ analysis
  /\ pc' = "line81"
  /\ UNCHANGED <<file_object, tags, maybe_config, decompress_calls, classified, tmpfile,
                 auditor_output, result, exc, arg, ret>>

\* line 81 is false: no configuration was recorded
NoAudit ==
  /\ pc = "line81"
  /\ "kernel_config" \notin DOMAIN analysis
  /\ pc' = "return"
  /\ UNCHANGED <<file_object, analysis, tags, maybe_config, decompress_calls, classified,
                 tmpfile, auditor_output, result, exc, arg, ret>>

\* lines 81-82 and 144-147: check_kernel_config is entered, the temporary file
\* is created and the configuration text written to it
CreateTemp ==
  /\ pc = "line81"
  /\ "kernel_config" \in DOMAIN analysis
  /\ tmpfile' = "exists"
  /\ pc' = "exec"
  /\ UNCHANGED <<file_object, analysis, tags, maybe_config, decompress_calls, classified,
                 auditor_output, result, exc, arg, ret>>

\* lines 148-149: execute_shell_command runs the auditor, which prints something
RunAuditor ==
  /\ pc = "exec"
  /\ auditor_output' \in AuditorOutputs(AuditEntries)
  /\ pc' = "loads"
  /\ UNCHANGED <<file_object, analysis, tags, maybe_config, decompress_calls, classified,
                 tmpfile, result, exc, arg, ret>>

\* line 149: result = json.loads(...)
JsonLoads ==
  /\ pc = "loads"
  /\ LET r == json_loads(auditor_output) IN
       IF r.exc = "none"
       THEN result' = r.value /\ pc' = "whitelist" /\ UNCHANGED exc
       ELSE exc' = r.exc /\ pc' = "exit_with" /\ UNCHANGED result
  /\ UNCHANGED <<file_object, analysis, tags, maybe_config, decompress_calls, classified,
                 tmpfile, auditor_output, arg, ret>>

\* line 150: whitelist_configs(result) filters result in place
Whitelist ==
  /\ pc = "whitelist"
  /\ LET r == whitelist_configs(result) IN
       /\ result' = r.value
       /\ exc' = r.exc
  /\ pc' = "exit_with"
  /\ UNCHANGED <<file_object, analysis, tags, maybe_config, decompress_calls, classified,
                 tmpfile, auditor_output, arg, ret>>

\* a with block that leaves the file behind (NamedTemporaryFile(delete=False))
ExitWith_keep_file ==
  /\ pc = "exit_with"
  /\ pc' = "leave"
  /\ UNCHANGED <<file_object, analysis, tags, maybe_config, decompress_calls, classified,
                 tmpfile, auditor_output, result, exc, arg, ret>>

\* line 145: the with block is left, by return or by exception; closing the
\* NamedTemporaryFile deletes it
ExitWith ==
  /\ pc = "exit_with"
  /\ tmpfile' = "removed"
  /\ pc' = "leave"
  /\ UNCHANGED <<file_object, analysis, tags, maybe_config, decompress_calls, classified,
                 auditor_output, result, exc, arg, ret>>

\* lines 151-154 and the assignment of line 82: return result; or the except
\* clause catches JSONDecodeError and KeyError and {} is returned; or any
\* other exception leaves check_kernel_config and process_object
LeaveCheck ==
  /\ pc = "leave"
  /\ \/ /\ exc = "none"
        /\ analysis' = ("checksec" :> result) @@ analysis
        /\ pc' = "return"
        /\ UNCHANGED exc
     \/ /\ exc \in {"JSONDecodeError", "KeyError"}
        /\ analysis' = ("checksec" :> JObj(EmptyDict)) @@ analysis
        /\ exc' = "none"
        /\ pc' = "return"
     \/ /\ exc \notin {"none", "JSONDecodeError", "KeyError"}
        /\ pc' = "raised"
        /\ UNCHANGED <<analysis, exc>>
  /\ UNCHANGED <<file_object, tags, maybe_config, decompress_calls, classified,
                 tmpfile, auditor_output, result, arg, ret>>

\* line 84
Return ==
  /\ pc = "return"
  /\ pc' = "done"
  /\ UNCHANGED <<file_object, analysis, tags, maybe_config, decompress_calls, classified,
                 tmpfile, auditor_output, result, exc, arg, ret>>

Next ==
  \/ Begin
  \/ PlaintextPath
  \/ ExtractPath
  \/ NoPath
  \/ Summary
  \/ NoAudit
  \/ CreateTemp
  \/ RunAuditor
  \/ JsonLoads
  \/ Whitelist
  \/ ExitWith
  \/ LeaveCheck
  \/ Return

Spec == Init /\ [][Next]_vars

(***************************************************************************)
(* Claims about process_object and check_kernel_config (Spec)              *)
(***************************************************************************)
\* the classifier's criterion, read line by line
Acceptable(raw) == ValidUtf8(raw) /\ HasBannerLine(raw) /\ HasDirectiveLine(raw)

\* the result record says: a configuration, with this text
Found(raw) ==
  /\ "is_kernel_config" \in DOMAIN analysis
  /\ analysis["is_kernel_config"] = TRUE
  /\ "kernel_config" \in DOMAIN analysis
  /\ analysis["kernel_config"] = [str |-> raw]

\* the result record says: not a configuration
NotAConfig ==
  /\ "is_kernel_config" \notin DOMAIN analysis
  /\ "kernel_config" \notin DOMAIN analysis

\* C1: the result record carries is_kernel_config = True and a kernel_config
\* text only if probably_kernel_config accepted exactly the bytes whose decoding
\* is stored as kernel_config.
C1_FoundOnlyIfClassified ==
  ("is_kernel_config" \in DOMAIN analysis \/ "kernel_config" \in DOMAIN analysis) =>
    \E i \in 1..Len(classified) :
      /\ classified[i].accepted
      /\ Acceptable(classified[i].raw)
      /\ Found(classified[i].raw)

\* a configuration that came out of the cascade was recorded after the
\* object's own bytes had been rejected as plain text
C1_Witness ==
  /\ pc = "done"
  /\ Len(classified) = 2
  /\ ~classified[1].accepted
  /\ Found(maybe_config)
  /\ maybe_config # file_object.binary

\* the declared MIME type is exactly text/plain
MimeIsTextPlain ==
  /\ "file_type" \in DOMAIN file_object.processed_analysis
  /\ "mime" \in DOMAIN file_object.processed_analysis["file_type"]
  /\ file_object.processed_analysis["file_type"]["mime"] = "text/plain"

\* some component hint, lowercased, contains 'linux kernel'
HasKernelHint ==
  /\ "software_components" \in DOMAIN file_object.processed_analysis
  /\ "summary" \in DOMAIN file_object.processed_analysis["software_components"]
  /\ LET hints == file_object.processed_analysis["software_components"]["summary"] IN
     \E i \in 1..Len(hints) :
       \E j \in 1..(Len(hints[i]) - 2) :
         /\ hints[i][j] \in {"linux", "Linux", "LINUX"}
         /\ hints[i][j + 1] = " "
         /\ hints[i][j + 2] \in {"kernel", "Kernel", "KERNEL"}

\* the dispatch of lines 72-77 is over and no exception is in flight from it
Dispatched == pc \notin {"idle", "dispatch"} /\ exc # "DecompressError"

\* C2: first-match policy. (1) MIME text/plain and accepted bytes: Found with the
\* bytes verbatim, cascade not run; (2) otherwise, file name configs.ko or a
\* 'linux kernel' hint: Found with the cascade's result if the classifier accepts
\* it, else NotAConfig; (3) otherwise NotAConfig.
C2_FirstMatchPolicy ==
  Dispatched =>
    IF MimeIsTextPlain /\ Acceptable(file_object.binary)
    THEN Found(file_object.binary) /\ decompress_calls = <<>>
    ELSE IF file_object.file_name = "configs.ko" \/ HasKernelHint
    THEN /\ Len(decompress_calls) >= 1
         /\ IF Acceptable(maybe_config) THEN Found(maybe_config) ELSE NotAConfig
    ELSE NotAConfig /\ decompress_calls = <<>>

\* bytes that pass classification, a MIME type other than text/plain and no hint
C2_Witness ==
  /\ pc = "done"
  /\ Acceptable(file_object.binary)
  /\ "file_type" \in DOMAIN file_object.processed_analysis
  /\ "mime" \in DOMAIN file_object.processed_analysis["file_type"]
  /\ ~MimeIsTextPlain
  /\ file_object.file_name # "configs.ko"
  /\ "software_components" \in DOMAIN file_object.processed_analysis
  /\ ~HasKernelHint
  /\ NotAConfig

\* C3: no exception escapes process_object, whatever the auditor prints, as
\* long as the decompression capability does not raise.
C3_NoExceptionEscapes ==
  pc = "raised" => exc = "DecompressError"

\* the auditor's output is not JSON, or is a JSON object without a kernel or
\* without a grsecurity entry
OutputUnparsableOrLacksSection ==
  \/ auditor_output.kind = "garbage"
  \/ /\ auditor_output.kind = "json"
     /\ \/ LacksSection(auditor_output.doc, "kernel")
        \/ LacksSection(auditor_output.doc, "grsecurity")

\* C4: when a configuration is found and the auditor's output fails to parse
\* or lacks the kernel or grsecurity section, check_kernel_config does not
\* raise and returns an empty report, and the result record carries
\* is_kernel_config, the text, summary ['Kernel Config'] and checksec = {}.
C4_EmptyReportKeepsVerdict ==
  (pc \in {"return", "done", "raised"} /\ tmpfile # "none"
     /\ OutputUnparsableOrLacksSection) =>
    /\ pc # "raised"
    /\ \E raw \in Binaries \cup CandidateBufs :
         analysis = ("is_kernel_config" :> TRUE) @@ ("kernel_config" :> [str |-> raw])
                      @@ ("summary" :> <<"Kernel Config">>)
                      @@ ("checksec" :> JObj(EmptyDict))

\* check_kernel_config is running inside its with block
InsideWith == pc \in {"exec", "loads", "whitelist", "exit_with"}

\* check_kernel_config has been entered and left
AfterCheck == tmpfile # "none" /\ pc \in {"return", "done", "raised"}

\* C10: the temporary file exists during the whole auditor invocation and no
\* longer exists when check_kernel_config is left, on every exit path.
C10_TempFileRemovedOnEveryExit ==
  /\ InsideWith => tmpfile = "exists"
  /\ (pc = "leave" \/ AfterCheck) => tmpfile = "removed"

\* an exception that the except clause does not catch left the call
C10_Witness ==
  /\ pc = "raised"
  /\ exc = "AttributeError"
  /\ tmpfile = "removed"

====
